---- MODULE Spec2Model ----
(***************************************************************************)
(* Model of sciphi/interface/llm/sciphi_interface.py: the SciPhiFormatter  *)
(* text protocol and the three entry points of SciPhiLLMInterface.         *)
(*                                                                         *)
(* Python str values are TLA+ strings (Len, \o and SubSeq act on them      *)
(* character by character).  An Optional[str] is <<>> for None and <<s>>   *)
(* for the string s.  The model backend and the retrieval backend are      *)
(* external: every call to one of them is appended to `calls`, and what    *)
(* the backend answers is chosen from a small set when it returns.         *)
(***************************************************************************)
EXTENDS Integers, Sequences, FiniteSets, TLC

VARIABLES
    rag_interface,      \* TRUE iff a retrieval backend was given to __init__
    segments,           \* the segments a well-formed remove_cruft input was built from
    pc,                 \* position of the current invocation
    entry,              \* the entry point that was invoked ("" before a call)
    generation_config,  \* the caller's GenerationConfig object
    arg,                \* the caller's argument: prompt, conversation, prompts or text
    prompt,             \* the local `prompt` of the running entry point
    completion,         \* the local `completion` of get_completion's RAG loop
    calls,              \* backend calls made so far, in order
    result,             \* value returned by a str-valued entry point
    result_list,        \* value returned by get_batch_completion
    raised              \* message of the exception raised ("" if none)

vars == <<rag_interface, segments, pc, entry, generation_config, arg, prompt,
          completion, calls, result, result_list, raised>>

----------------------------------------------------------------------------
(* Bounds of the model *)

\* most answers ending with "[Retrieval]" that the model backend gives to one
\* get_completion call
MaxRounds == 3
\* longest conversation passed to get_chat_completion
MaxConv == 2
\* longest prompt list passed to get_batch_completion
MaxBatch == 2
\* most fragments concatenated into an input of the formatter functions
MaxFrags == 3

----------------------------------------------------------------------------
(* Python str primitives *)

None == <<>>
Some(s) == <<s>>

Min(S) == CHOOSE m \in S : \A n \in S : m <= n

\* s[i-1 : i-1+len(t)] == t, for a 1-based position i
MatchAt(s, t, i) ==
    /\ i >= 1
    /\ i + Len(t) - 1 <= Len(s)
    /\ SubSeq(s, i, i + Len(t) - 1) = t

\* 1-based str.find(t, from): first position >= from where t occurs, 0 if none
Find(s, t, from) ==
    LET hits == {k \in from..(Len(s) - Len(t) + 1) : MatchAt(s, t, k)}
    IN  IF hits = {} THEN 0 ELSE Min(hits)

\* t in s
Contains(s, t) == Find(s, t, 1) # 0

\* s.endswith(t)
EndsWith(s, t) ==
    /\ Len(t) <= Len(s)
    /\ SubSeq(s, Len(s) - Len(t) + 1, Len(s)) = t

\* s.replace(t, ""): leftmost non-overlapping occurrences, one pass
RECURSIVE Replace(_, _)
Replace(s, t) ==
    LET i == Find(s, t, 1)
    IN  IF i = 0 THEN s
        ELSE SubSeq(s, 1, i - 1)
                 \o Replace(SubSeq(s, i + Len(t), Len(s)), t)

\* s.split(sep), as a sequence of strings
RECURSIVE Split(_, _)
Split(s, sep) ==
    LET i == Find(s, sep, 1)
    IN  IF i = 0 THEN <<s>>
        ELSE <<SubSeq(s, 1, i - 1)>>
                 \o Split(SubSeq(s, i + Len(sep), Len(s)), sep)

\* the characters str.strip() removes (those for which str.isspace holds),
\* among those a TLA+ string literal can hold: space, \t, \n, \r, \f, then,
\* written raw and read as UTF-8, \x0b, \x1c, \x1d, \x1e, \x1f, \x85, \xa0
\* and U+1680.  str.strip also removes U+2000..U+200A, U+2028, U+2029,
\* U+202F, U+205F and U+3000, which the lexer rejects in a string literal.
Whitespace ==
    {" ", "\t", "\n", "\r", "\f",
     "", "", "", "", "", "", " ", " "}

RECURSIVE LStrip(_)
LStrip(s) ==
    IF Len(s) > 0 /\ SubSeq(s, 1, 1) \in Whitespace
    THEN LStrip(SubSeq(s, 2, Len(s)))
    ELSE s

RECURSIVE RStrip(_)
RStrip(s) ==
    IF Len(s) > 0 /\ SubSeq(s, Len(s), Len(s)) \in Whitespace
    THEN RStrip(SubSeq(s, 1, Len(s) - 1))
    ELSE s

\* s.strip()
Strip(s) == RStrip(LStrip(s))

----------------------------------------------------------------------------
(* SciPhiFormatter *)

SYSTEM_PROMPT == "### System:\nYou are a helpful and informative professor. You give long, accurate, and detailed explanations to student questions. You answer EVERY question that is given to you. You retrieve data multiple times if necessary.\n\n"
INSTRUCTION_PREFIX == "### Instruction:\n"
INSTRUCTION_SUFFIX == "### Response:\n"
INIT_PARAGRAPH_TOKEN == "<paragraph>"
END_PARAGRAPH_TOKEN == "</paragraph>"

RETRIEVAL_TOKEN == "[Retrieval]"
IRRELEVANT_TOKEN == "[Irrelevant]"
FULLY_SUPPORTED == "[Fully supported]"
NO_RETRIEVAL_TOKEN == "[No Retrieval]"
EVIDENCE_TOKEN == "[Continue to Use Evidence]"
UTILITY_TOKEN == "[Utility:5]"
RELEVANT_TOKEN == "[Relevant]"
PARTIALLY_SUPPORTED_TOKEN == "[Partially supported]"
NO_SUPPORT_TOKEN == "[No support / Contradictory]"
END_TOKEN == "</s>"

format_prompt(input) ==
    SYSTEM_PROMPT \o INSTRUCTION_PREFIX \o "\n" \o input \o "\n\n"
        \o INSTRUCTION_SUFFIX

\* the guard of extract_post_prompt: it raises ValueError when this is FALSE
extract_post_prompt_ok(c) == Contains(c, INSTRUCTION_SUFFIX)

ExtractError == "ValueError: Full Completion does not contain ### Response:\n"

extract_post_prompt(c) == Split(c, INSTRUCTION_SUFFIX)[2]

\* variant: the span is matched greedily (".*" for ".*?"), up to the last
\* closing marker
SubParagraphs_greedy(s) ==
    LET i == Find(s, INIT_PARAGRAPH_TOKEN, 1)
        ends == {k \in (i + Len(INIT_PARAGRAPH_TOKEN))..Len(s) :
                    MatchAt(s, END_PARAGRAPH_TOKEN, k)}
    IN  IF i = 0 \/ ends = {} THEN s
        ELSE SubSeq(s, 1, i - 1)
                 \o SubSeq(s, (CHOOSE k \in ends : \A n \in ends : n <= k)
                                  + Len(END_PARAGRAPH_TOKEN), Len(s))

\* re.sub("<paragraph>.*?</paragraph>", "", s, flags=re.DOTALL)
RECURSIVE SubParagraphs(_)
SubParagraphs(s) ==
    LET i == Find(s, INIT_PARAGRAPH_TOKEN, 1)
    IN  IF i = 0 THEN s
        ELSE LET j == Find(s, END_PARAGRAPH_TOKEN,
                           i + Len(INIT_PARAGRAPH_TOKEN))
             IN  IF j = 0 THEN s
                 ELSE SubSeq(s, 1, i - 1)
                          \o SubParagraphs(
                                 SubSeq(s, j + Len(END_PARAGRAPH_TOKEN),
                                        Len(s)))

\* the chain of .replace(token, "") calls, in the order of the source
ReplaceOrder ==
    << RETRIEVAL_TOKEN, NO_RETRIEVAL_TOKEN, IRRELEVANT_TOKEN, EVIDENCE_TOKEN,
       UTILITY_TOKEN, RELEVANT_TOKEN, PARTIALLY_SUPPORTED_TOKEN,
       FULLY_SUPPORTED, END_TOKEN, NO_SUPPORT_TOKEN >>

RECURSIVE ReplaceChain(_, _)
ReplaceChain(s, k) ==
    IF k > Len(ReplaceOrder) THEN s
    ELSE ReplaceChain(Replace(s, ReplaceOrder[k]), k + 1)

remove_cruft(s) == ReplaceChain(SubParagraphs(s), 1)

----------------------------------------------------------------------------
(* SciPhiLLMInterface: values and helpers *)

ALPACA_CHAT_SYSTEM_PROMPT == "Below is a series of instructions from a USER that describes a task, paired with an input that provides further context. The ASSISTANT writes a response that concisely and appropriately completes the request."

\* messages of the exceptions the entry points raise
StopTokenError == "ValueError: Must speicfy stop_token = <paragraph> to run with SciPhi"
NoModelNameError == "ValueError: No model name provided"
ChatNoRagError == "ValueError: RAG generation requested but no RAG interface provided"
CompletionNoRagError == "ValueError: RAG model requested, but no RAG interface provided"
UnboundLocalError == "UnboundLocalError: last_user_message"

\* variant: any stop token that is set is accepted
check_stop_token_any(stop_token) == stop_token # None

\* _check_stop_token passes (does not raise) iff this holds
check_stop_token(stop_token) == stop_token = Some(INIT_PARAGRAPH_TOKEN)

\* variant: only a missing name is rejected, "" is accepted
HasModelName_not_none(cfg) == cfg.model_name # None

\* truth value of generation_config.model_name (None and "" are falsy)
HasModelName(cfg) == cfg.model_name # None /\ cfg.model_name[1] # ""

\* variant: the model name is compared with "RAG" instead of searched
IsRAG_exact(cfg) == cfg.model_name[1] = "RAG"

\* "RAG" in generation_config.model_name
IsRAG(cfg) == Contains(cfg.model_name[1], "RAG")

\* variant: the retrieval backend is never checked
HasRagInterface_unchecked(rag) == TRUE

\* truth value of self.rag_interface
HasRagInterface(rag) == rag

\* variant: the copy is an alias, so clearing its stop token clears the
\* caller's
AfterCopy_aliased(cfg) == [cfg EXCEPT !.stop_token = None]

\* the caller's config object after copy(generation_config) and the
\* assignment to the copy: copy() returns a separate object
AfterCopy(cfg) == cfg

\* copy(generation_config) followed by stop_token = None on the copy
ConfigCopy(cfg) == [cfg EXCEPT !.stop_token = None]

\* a call of self.model.get_instruct_completion(p, cfg), not yet returned
ModelCall(p, cfg) ==
    [op |-> "get_instruct_completion", prompt |-> p, list |-> <<>>,
     config |-> Some(cfg), ret |-> None]

\* a call of self.rag_interface.get_contexts([q]), not yet returned
RagCall(q) ==
    [op |-> "get_contexts", prompt |-> "", list |-> <<q>>,
     config |-> None, ret |-> None]

\* a call of self.model.get_batch_instruct_completion(ps, cfg)
BatchCall(ps, cfg) ==
    [op |-> "get_batch_instruct_completion", prompt |-> "", list |-> ps,
     config |-> Some(cfg), ret |-> None]

\* the pending (last) call returns r
Returned(cs, r) == [cs EXCEPT ![Len(cs)].ret = r]

\* variant: the non-RAG branch cleans the output as the RAG branch does
DirectResult_cleaned(r) == Strip(remove_cruft(r))

\* get_completion, non-RAG branch: the value returned for backend output r
DirectResult(r) == Strip(r)

\* get_completion, RAG loop: completion after the model returned r
Accumulate(c, r) == c \o Strip(r)

\* get_completion, RAG loop: the loop goes on iff this holds
NeedsRetrieval(c) == EndsWith(c, RETRIEVAL_TOKEN)

\* variant: the original prompt is the query whenever the completion ends
\* with the retrieval token
ContextQuery_ends_with(p, c) ==
    IF EndsWith(c, RETRIEVAL_TOKEN) THEN p ELSE remove_cruft(c)

\* get_completion, RAG loop: the query of the next retrieval
ContextQuery(p, c) == IF c = RETRIEVAL_TOKEN THEN p ELSE remove_cruft(c)

\* variant: the paragraph span replaces the completion accumulated so far
Splice_overwrite(c, ctx) == INIT_PARAGRAPH_TOKEN \o ctx \o END_PARAGRAPH_TOKEN

\* get_completion, RAG loop: completion after the retrieval returned ctx
Splice(c, ctx) == c \o INIT_PARAGRAPH_TOKEN \o ctx \o END_PARAGRAPH_TOKEN

\* get_completion, RAG loop: the value returned after the loop
LoopResult(c) == Strip(remove_cruft(c))

\* get_chat_completion: one iteration of the loop over the conversation
ChatMessage(st, m) ==
    IF m.role = "system"
    THEN [st EXCEPT
            !.prompt = @ \o "### System:\n" \o ALPACA_CHAT_SYSTEM_PROMPT
                         \o ". Further, the assistant is given the following additional instructions - "
                         \o m.content \o "\n\n",
            !.added_system_prompt = TRUE]
    ELSE IF m.role = "user"
    THEN [st EXCEPT
            !.last_user_message = Some(m.content),
            !.prompt = @ \o "### Instruction:\n" \o m.content \o "\n\n"]
    ELSE IF m.role = "assistant"
    THEN [st EXCEPT
            !.prompt = @ \o "### Response:\n" \o m.content \o "\n\n"]
    ELSE st

RECURSIVE ChatLoop(_, _, _)
ChatLoop(conv, k, st) ==
    IF k > Len(conv) THEN st
    ELSE ChatLoop(conv, k + 1, ChatMessage(st, conv[k]))

\* get_chat_completion up to the model-name check: the flattened prompt and
\* last_user_message (None while the local is unbound)
Flatten(conv) ==
    LET st == ChatLoop(conv, 1,
                       [prompt |-> "", added_system_prompt |-> FALSE,
                        last_user_message |-> None])
    IN  IF st.added_system_prompt THEN st
        ELSE [st EXCEPT
                !.prompt = "### System:\n" \o ALPACA_CHAT_SYSTEM_PROMPT
                               \o ".\n\n" \o @]

\* variant: the query is derived for every non-empty conversation
DerivesQuery_non_empty(conv) == Len(conv) >= 1

\* get_chat_completion: the query is derived by the model iff this holds
DerivesQuery(conv) == Len(conv) > 1

\* get_chat_completion: the prompt of the query-derivation call
QueryPrompt(p) ==
    "### Instruction:\nBased on the following conversation, what is the ideal query to retrieve related context? ### Conversation:\n"
        \o p \o "\n\nNow, return the query.\n\n### Response:\n"

\* get_chat_completion: the prompt after the context was spliced in
ChatSplice(p, ctx) ==
    p \o "### Response:\n" \o RETRIEVAL_TOKEN \o " " \o INIT_PARAGRAPH_TOKEN
      \o ctx \o END_PARAGRAPH_TOKEN

\* get_chat_completion: the value returned for backend output r
ChatResult(r) == remove_cruft(r)

\* variant: every element of the backend's list is cleaned
BatchResult_cleaned(rs) == [i \in 1..Len(rs) |-> remove_cruft(rs[i])]

\* get_batch_completion: the value returned for the backend's list rs
BatchResult(rs) == rs

----------------------------------------------------------------------------
(* Inputs of the entry points and answers of the backends *)

StopTokens == {None, Some(INIT_PARAGRAPH_TOKEN), Some(END_PARAGRAPH_TOKEN)}

ModelNames ==
    {None, Some(""), Some("SciPhi-Self-RAG-Mistral-7B-32k"),
     Some("llama-2-7b")}

Configs == [stop_token : StopTokens, model_name : ModelNames]

Prompts == {"What is RAG?", " q\n"}

ModelOutputs ==
    {"[Retrieval]", "final answer", "  hello ", "Intro.[Retrieval] \n",
     "[Relevant]fact[Fully supported]</s>", ""}

Contexts == {"ctx", "a</paragraph>[Retrieval]"}

Roles == {"system", "user", "assistant"}

Contents == {"hi", "[Retrieval]"}

Messages == [role : Roles, content : Contents]

\* sequences over S of length at most n
RECURSIVE SeqUpTo(_, _)
SeqUpTo(S, n) ==
    IF n = 0 THEN {<<>>}
    ELSE LET shorter == SeqUpTo(S, n - 1)
         IN  shorter \cup {Append(q, x) : q \in shorter, x \in S}

Conversations == SeqUpTo(Messages, MaxConv)

PromptLists == SeqUpTo(Prompts, MaxBatch)

BatchOutputs == SeqUpTo({"  hello  ", "[Retrieval]<paragraph>x</paragraph>"}, MaxBatch)

\* concatenations of at most n fragments of F
RECURSIVE Concats(_, _)
Concats(F, n) ==
    IF n = 0 THEN {""}
    ELSE LET shorter == Concats(F, n - 1)
         IN  shorter \cup {q \o f : q \in shorter, f \in F}

CruftFragments ==
    {"rest", "c\nx", "[Retrieval]", "[Irrelevant]", "<paragraph>",
     "</paragraph>", "[Retr", "ieval]", "[Relevant]", "</s>"}

CruftInputs == Concats(CruftFragments, MaxFrags)

PostPromptFragments == {"### Response:\n", "ANSWER", "### Response:", "\n"}

PostPromptInputs == Concats(PostPromptFragments, MaxFrags)

\* the segments of a well-formed remove_cruft input: plain text, a whole
\* control token, or a paragraph span given by its body
TextSegments == [kind : {"text"}, text : {"rest", "a b\n"}]

TokenSegments ==
    [kind : {"token"},
     text : {RETRIEVAL_TOKEN, IRRELEVANT_TOKEN, FULLY_SUPPORTED,
             NO_RETRIEVAL_TOKEN, EVIDENCE_TOKEN, UTILITY_TOKEN,
             RELEVANT_TOKEN, PARTIALLY_SUPPORTED_TOKEN, NO_SUPPORT_TOKEN,
             END_TOKEN}]

SpanSegments ==
    [kind : {"span"}, text : {"ctx", "l1\n[Relevant]<paragraph>l2"}]

Segments == TextSegments \cup TokenSegments \cup SpanSegments

\* the text of one segment
SegmentText(g) ==
    IF g.kind = "span"
    THEN INIT_PARAGRAPH_TOKEN \o g.text \o END_PARAGRAPH_TOKEN
    ELSE g.text

\* the input built from the segments sl, in order
RECURSIVE Join(_)
Join(sl) ==
    IF sl = <<>> THEN "" ELSE SegmentText(Head(sl)) \o Join(Tail(sl))

\* "[Retrieval]<paragraph>ctx</paragraph>rest[Irrelevant]", by segments
ExampleSegments ==
    << [kind |-> "token", text |-> RETRIEVAL_TOKEN],
       [kind |-> "span", text |-> "ctx"],
       [kind |-> "text", text |-> "rest"],
       [kind |-> "token", text |-> IRRELEVANT_TOKEN] >>

SegmentLists == SeqUpTo(Segments, MaxFrags) \cup {ExampleSegments}

FormatInputs == {"Q", "", "a\nb", "\nQ", "What is RAG?"}

----------------------------------------------------------------------------
(* State machine *)

Init ==
    /\ rag_interface \in BOOLEAN
    /\ segments = <<>>
    /\ pc = "idle"
    /\ entry = ""
    /\ generation_config = [stop_token |-> None, model_name |-> None]
    /\ arg = ""
    /\ prompt = ""
    /\ completion = ""
    /\ calls = <<>>
    /\ result = ""
    /\ result_list = <<>>
    /\ raised = ""

\* the invocation ends by raising the exception with message msg
Raise(msg) ==
    /\ pc' = "raised"
    /\ raised' = msg
    /\ UNCHANGED <<completion, calls, result, result_list>>

\* number of calls of operation op in cs
NumCalls(cs, op) == Cardinality({i \in 1..Len(cs) : cs[i].op = op})

\* SciPhiFormatter.remove_cruft(x), called directly
RemoveCruft(x) ==
    /\ pc = "idle"
    /\ entry' = "remove_cruft"
    /\ arg' = x
    /\ result' = remove_cruft(x)
    /\ pc' = "returned"
    /\ UNCHANGED <<rag_interface, segments, generation_config, prompt, completion,
                   calls, result_list, raised>>

\* SciPhiFormatter.remove_cruft(Join(sl)), called directly on an input
\* built from the segments sl
RemoveCruftSegments(sl) ==
    /\ pc = "idle"
    /\ entry' = "remove_cruft"
    /\ segments' = sl
    /\ arg' = Join(sl)
    /\ result' = remove_cruft(Join(sl))
    /\ pc' = "returned"
    /\ UNCHANGED <<rag_interface, generation_config, prompt,
                   completion, calls, result_list, raised>>

\* SciPhiFormatter.extract_post_prompt(c), called directly
ExtractPostPrompt(c) ==
    /\ pc = "idle"
    /\ entry' = "extract_post_prompt"
    /\ arg' = c
    /\ IF ~extract_post_prompt_ok(c)
       THEN /\ Raise(ExtractError)
       ELSE /\ result' = extract_post_prompt(c)
            /\ pc' = "returned"
            /\ UNCHANGED <<completion, calls, result_list, raised>>
    /\ UNCHANGED <<rag_interface, segments, generation_config, prompt>>

\* SciPhiFormatter.format_prompt(x), called directly
FormatPrompt(x) ==
    /\ pc = "idle"
    /\ entry' = "format_prompt"
    /\ arg' = x
    /\ result' = format_prompt(x)
    /\ pc' = "returned"
    /\ UNCHANGED <<rag_interface, segments, generation_config, prompt, completion, calls,
                   result_list, raised>>

\* get_completion(p, cfg), up to its first backend call or its raise
GetCompletion(p, cfg) ==
    /\ pc = "idle"
    /\ entry' = "get_completion"
    /\ arg' = p
    /\ generation_config' = cfg
    /\ prompt' = p
    /\ IF ~check_stop_token(cfg.stop_token) THEN Raise(StopTokenError)
       ELSE IF ~HasModelName(cfg) THEN Raise(NoModelNameError)
       ELSE IF ~IsRAG(cfg)
       THEN /\ calls' = Append(calls, ModelCall(p, cfg))
            /\ pc' = "completion_direct"
            /\ UNCHANGED <<completion, result, result_list, raised>>
       ELSE IF ~HasRagInterface(rag_interface)
       THEN Raise(CompletionNoRagError)
       ELSE /\ completion' = ""
            /\ calls' = Append(calls, ModelCall(format_prompt(p) \o "", cfg))
            /\ pc' = "completion_model"
            /\ UNCHANGED <<result, result_list, raised>>
    /\ UNCHANGED <<rag_interface, segments>>

\* get_completion, non-RAG: the model backend returns r
CompletionDirectReturn(r) ==
    /\ pc = "completion_direct"
    /\ calls' = Returned(calls, Some(r))
    /\ result' = DirectResult(r)
    /\ pc' = "returned"
    /\ UNCHANGED <<rag_interface, segments, entry, generation_config, arg, prompt,
                   completion, result_list, raised>>

\* variant: the loop has an iteration cap, it also breaks at the second
\* model output whatever the completion ends with
CompletionModelReturn_capped(r) ==
    /\ pc = "completion_model"
    /\ LET c == Accumulate(completion, r)
       IN  /\ completion' = c
           /\ IF ~NeedsRetrieval(c)
                 \/ NumCalls(calls, "get_instruct_completion") >= 2
              THEN /\ calls' = Returned(calls, Some(r))
                   /\ result' = LoopResult(c)
                   /\ pc' = "returned"
              ELSE /\ calls' = Append(Returned(calls, Some(r)),
                                      RagCall(ContextQuery(prompt, c)))
                   /\ pc' = "completion_rag"
                   /\ UNCHANGED result
    /\ UNCHANGED <<rag_interface, segments, entry, generation_config, arg, prompt,
                   result_list, raised>>

\* get_completion, RAG loop: the model backend returns r; the loop either
\* breaks and returns, or goes on to the retrieval call
CompletionModelReturn(r) ==
    /\ pc = "completion_model"
    /\ LET c == Accumulate(completion, r)
       IN  /\ completion' = c
           /\ IF ~NeedsRetrieval(c)
              THEN /\ calls' = Returned(calls, Some(r))
                   /\ result' = LoopResult(c)
                   /\ pc' = "returned"
              ELSE /\ calls' = Append(Returned(calls, Some(r)),
                                      RagCall(ContextQuery(prompt, c)))
                   /\ pc' = "completion_rag"
                   /\ UNCHANGED result
    /\ UNCHANGED <<rag_interface, segments, entry, generation_config, arg, prompt,
                   result_list, raised>>

\* get_completion, RAG loop: the retrieval backend returns [ctx]; the next
\* iteration runs up to its model call
CompletionRagReturn(ctx) ==
    /\ pc = "completion_rag"
    /\ LET c == Splice(completion, ctx)
       IN  /\ completion' = c
           /\ calls' = Append(Returned(calls, <<ctx>>),
                              ModelCall(format_prompt(prompt) \o c,
                                        generation_config))
    /\ pc' = "completion_model"
    /\ UNCHANGED <<rag_interface, segments, entry, generation_config, arg, prompt,
                   result, result_list, raised>>

\* get_chat_completion(conv, cfg), up to its first backend call or its raise
GetChatCompletion(conv, cfg) ==
    /\ pc = "idle"
    /\ entry' = "get_chat_completion"
    /\ arg' = conv
    /\ IF ~check_stop_token(cfg.stop_token)
       THEN /\ Raise(StopTokenError)
            /\ generation_config' = cfg
            /\ UNCHANGED prompt
       ELSE LET st == Flatten(conv)
            IN  IF ~HasModelName(cfg)
                THEN /\ Raise(NoModelNameError)
                     /\ generation_config' = cfg
                     /\ prompt' = st.prompt
                ELSE IF IsRAG(cfg)
                THEN /\ prompt' = st.prompt
                     /\ IF ~HasRagInterface(rag_interface)
                        THEN /\ Raise(ChatNoRagError)
                             /\ generation_config' = cfg
                        ELSE /\ generation_config' = AfterCopy(cfg)
                             /\ IF DerivesQuery(conv)
                                THEN /\ calls' = Append(calls,
                                            ModelCall(QueryPrompt(st.prompt),
                                                      ConfigCopy(cfg)))
                                     /\ pc' = "chat_query"
                                     /\ UNCHANGED <<completion, result,
                                                    result_list, raised>>
                                ELSE IF st.last_user_message = None
                                THEN Raise(UnboundLocalError)
                                ELSE /\ calls' = Append(calls,
                                            RagCall(st.last_user_message[1]))
                                     /\ pc' = "chat_rag"
                                     /\ UNCHANGED <<completion, result,
                                                    result_list, raised>>
                ELSE /\ prompt' = st.prompt \o "### Response:\n"
                     /\ generation_config' = cfg
                     /\ calls' = Append(calls, ModelCall(prompt', cfg))
                     /\ pc' = "chat_final"
                     /\ UNCHANGED <<completion, result, result_list, raised>>
    /\ UNCHANGED <<rag_interface, segments>>

\* get_chat_completion: the query-derivation model call returns r
ChatQueryReturn(r) ==
    /\ pc = "chat_query"
    /\ calls' = Append(Returned(calls, Some(r)), RagCall(remove_cruft(r)))
    /\ pc' = "chat_rag"
    /\ UNCHANGED <<rag_interface, segments, entry, generation_config, arg, prompt,
                   completion, result, result_list, raised>>

\* get_chat_completion: the retrieval backend returns [ctx]
ChatRagReturn(ctx) ==
    /\ pc = "chat_rag"
    /\ prompt' = ChatSplice(prompt, ctx)
    /\ calls' = Append(Returned(calls, <<ctx>>),
                       ModelCall(prompt', generation_config))
    /\ pc' = "chat_final"
    /\ UNCHANGED <<rag_interface, segments, entry, generation_config, arg, completion,
                   result, result_list, raised>>

\* get_chat_completion: the final model call returns r
ChatFinalReturn(r) ==
    /\ pc = "chat_final"
    /\ calls' = Returned(calls, Some(r))
    /\ result' = ChatResult(r)
    /\ pc' = "returned"
    /\ UNCHANGED <<rag_interface, segments, entry, generation_config, arg, prompt,
                   completion, result_list, raised>>

\* get_batch_completion(ps, cfg), up to its backend call
GetBatchCompletion(ps, cfg) ==
    /\ pc = "idle"
    /\ entry' = "get_batch_completion"
    /\ arg' = ps
    /\ generation_config' = cfg
    /\ calls' = Append(calls, BatchCall(ps, cfg))
    /\ pc' = "batch"
    /\ UNCHANGED <<rag_interface, segments, prompt, completion, result, result_list,
                   raised>>

\* get_batch_completion: the model backend returns the list rs
BatchReturn(rs) ==
    /\ pc = "batch"
    /\ calls' = Returned(calls, rs)
    /\ result_list' = BatchResult(rs)
    /\ pc' = "returned"
    /\ UNCHANGED <<rag_interface, segments, entry, generation_config, arg, prompt,
                   completion, result, raised>>


\* what the model backend may answer to the model call pending in the RAG
\* loop whose calls so far are cs: any output, but once it has asked for
\* MaxRounds retrievals only an output that does not ask for another one.
\* The loop itself has no bound; this one is on the backend.
LoopOutputs(cs) ==
    IF NumCalls(cs, "get_contexts") < MaxRounds
    THEN ModelOutputs
    ELSE {r \in ModelOutputs : ~EndsWith(Strip(r), RETRIEVAL_TOKEN)}

\* an entry point or a formatter function is invoked on an idle interface
\* only (every such action has this guard itself; it is repeated before the
\* quantifiers so that the inputs are enumerated in idle states only)
Next ==
    \/ pc = "idle" /\ \E x \in CruftInputs : RemoveCruft(x)
    \/ pc = "idle" /\ \E sl \in SegmentLists : RemoveCruftSegments(sl)
    \/ pc = "idle" /\ \E c \in PostPromptInputs : ExtractPostPrompt(c)
    \/ pc = "idle" /\ \E x \in FormatInputs : FormatPrompt(x)
    \/ pc = "idle" /\ \E p \in Prompts, cfg \in Configs : GetCompletion(p, cfg)
    \/ \E r \in ModelOutputs : CompletionDirectReturn(r)
    \/ \E r \in LoopOutputs(calls) : CompletionModelReturn(r)
    \/ \E ctx \in Contexts : CompletionRagReturn(ctx)
    \/ pc = "idle" /\ \E conv \in Conversations, cfg \in Configs :
                          GetChatCompletion(conv, cfg)
    \/ \E r \in ModelOutputs : ChatQueryReturn(r)
    \/ \E ctx \in Contexts : ChatRagReturn(ctx)
    \/ \E r \in ModelOutputs : ChatFinalReturn(r)
    \/ pc = "idle" /\ \E ps \in PromptLists, cfg \in Configs :
                          GetBatchCompletion(ps, cfg)
    \/ \E rs \in BatchOutputs : BatchReturn(rs)

Spec == Init /\ [][Next]_vars

\* get_completion alone, with backends that answer every call they get and
\* a model backend that in the end gives an output not ending with
\* "[Retrieval]"
NextCompletion ==
    \/ \E p \in Prompts, cfg \in Configs : GetCompletion(p, cfg)
    \/ \E r \in ModelOutputs : CompletionDirectReturn(r)
    \/ \E r \in LoopOutputs(calls) : CompletionModelReturn(r)
    \/ \E ctx \in Contexts : CompletionRagReturn(ctx)

\* a pending model call of the RAG loop returns: the step CompletionModelReturn
\* seen on pc alone (it is enabled exactly when pc = "completion_model" and
\* always moves pc), so that its enabling is decided without cleaning text
ModelAnswers ==
    /\ pc = "completion_model"
    /\ pc' \in {"returned", "completion_rag"}

SpecLive ==
    /\ Init
    /\ [][NextCompletion]_vars
    /\ WF_vars(\E r \in ModelOutputs : CompletionDirectReturn(r))
    /\ WF_pc(ModelAnswers)
    /\ WF_vars(\E ctx \in Contexts : CompletionRagReturn(ctx))

----------------------------------------------------------------------------
(* Vocabulary of the properties *)

\* the running invocation is one of the two non-batch entry points
NonBatchEntry == entry \in {"get_completion", "get_chat_completion"}

\* the caller's stop token is exactly "<paragraph>"
ValidStop == generation_config.stop_token = <<"<paragraph>">>

\* the caller's model name is missing or empty
NoName == generation_config.model_name \in {<<>>, <<"">>}

\* the caller's model name contains "RAG"
RagName == ~NoName /\ Contains(generation_config.model_name[1], "RAG")

\* the exceptions the spec calls configuration errors
ConfigurationErrors ==
    {StopTokenError, NoModelNameError, ChatNoRagError, CompletionNoRagError}

IsModelCall(c) == c.op = "get_instruct_completion"
IsRagCall(c) == c.op = "get_contexts"
NumModel == NumCalls(calls, "get_instruct_completion")
NumRag == NumCalls(calls, "get_contexts")

\* the strings returned so far by the model backend, in order
ModelReturns ==
    LET done == SelectSeq(calls, LAMBDA c : IsModelCall(c) /\ c.ret # <<>>)
    IN  [i \in 1..Len(done) |-> done[i].ret[1]]

\* every character of s is whitespace
AllWhitespace(s) == \A k \in 1..Len(s) : SubSeq(s, k, k) \in Whitespace

\* res is raw without its leading and trailing whitespace, and nothing else
\* was removed
IsTrimOf(res, raw) ==
    /\ \E i \in 0..Len(raw) :
          /\ i + Len(res) <= Len(raw)
          /\ SubSeq(raw, i + 1, i + Len(res)) = res
          /\ AllWhitespace(SubSeq(raw, 1, i))
          /\ AllWhitespace(SubSeq(raw, i + Len(res) + 1, Len(raw)))
    /\ \/ res = ""
       \/ /\ SubSeq(res, 1, 1) \notin Whitespace
          /\ SubSeq(res, Len(res), Len(res)) \notin Whitespace

----------------------------------------------------------------------------
(* Properties *)

\* C1: in get_completion and in get_chat_completion, a stop token other than
\* "<paragraph>" (None included) ends the call in the stop-token
\* configuration error, and no backend has been called when it is raised.
C1_StopTokenRejected ==
    (NonBatchEntry /\ ~ValidStop)
        => /\ pc = "raised"
           /\ raised = StopTokenError
           /\ calls = <<>>

\* C1 happens: a RAG request with a retrieval backend and a wrong (set) stop
\* token was rejected.
C1_Witness ==
    /\ entry = "get_completion"
    /\ generation_config.stop_token = <<"</paragraph>">>
    /\ RagName
    /\ rag_interface
    /\ pc = "raised"
    /\ raised = StopTokenError

\* the RAG mode of get_completion: valid stop token, "RAG" in the model
\* name, retrieval backend configured
C2_RagMode ==
    entry = "get_completion" /\ ValidStop /\ RagName /\ rag_interface

\* the call structure of the RAG loop: the backend calls alternate model,
\* retrieval, model, ..., each retrieval with a one-element query list; a
\* pending retrieval call means the completion ends with "[Retrieval]"; at
\* the return the completion does not end with it, the last call is a model
\* call and there is one model call more than retrieval calls.
C2_Alternation ==
    C2_RagMode
        => /\ Len(calls) >= 1
           /\ \A i \in 1..Len(calls) :
                 IF i % 2 = 1 THEN IsModelCall(calls[i])
                 ELSE IsRagCall(calls[i])
           /\ pc \in {"completion_model", "completion_rag", "returned"}
           /\ (pc = "completion_rag")
                 => /\ EndsWith(completion, "[Retrieval]")
                    /\ IsRagCall(calls[Len(calls)])
           /\ (pc = "completion_model") => IsModelCall(calls[Len(calls)])
           /\ (pc = "returned")
                 => /\ ~EndsWith(completion, "[Retrieval]")
                    /\ IsModelCall(calls[Len(calls)])
                    /\ NumModel = NumRag + 1

\* when a model call of the RAG loop returns, a retrieval call is issued iff
\* the accumulated completion then ends with "[Retrieval]", and otherwise
\* the call returns without any further backend call
C2_Step ==
    (C2_RagMode /\ pc = "completion_model")
        => IF EndsWith(completion', "[Retrieval]")
           THEN /\ pc' = "completion_rag"
                /\ Len(calls') = Len(calls) + 1
                /\ IsRagCall(calls'[Len(calls')])
           ELSE /\ pc' = "returned"
                /\ Len(calls') = Len(calls)

C2_StepProperty == [][C2_Step]_vars

\* the example of the claim: model answers "[Retrieval]" then "final answer"
\* give exactly one retrieval call and the result "final answer"
C2_Example ==
    (C2_RagMode /\ pc = "returned"
        /\ ModelReturns = <<"[Retrieval]", "final answer">>)
        => /\ NumRag = 1
           /\ result = "final answer"

\* C2: in RAG mode get_completion calls the retrieval backend exactly once
\* after each model call that leaves the accumulated completion ending with
\* "[Retrieval]" and never otherwise; model and retrieval calls alternate,
\* first and last are model calls, model calls = retrieval calls + 1; and a
\* model backend answering "[Retrieval]" then "final answer" causes one
\* retrieval and the result "final answer".
C2_RetrievalAlternates == C2_Alternation /\ C2_Example

\* C3: with a valid stop token and a non-empty model name without "RAG",
\* get_completion makes exactly one model call, with the caller's raw prompt
\* and config, makes no retrieval call, and returns the backend's output
\* with only its surrounding whitespace removed.
C3_DirectCompletion ==
    (entry = "get_completion" /\ ValidStop /\ ~NoName /\ ~RagName)
        => /\ pc \in {"completion_direct", "returned"}
           /\ Len(calls) = 1
           /\ IsModelCall(calls[1])
           /\ calls[1].prompt = arg
           /\ calls[1].config = <<generation_config>>
           /\ (pc = "returned")
                 => /\ calls[1].ret # <<>>
                    /\ IsTrimOf(result, calls[1].ret[1])

\* C3 happens: with a retrieval backend configured, the backend's output
\* carried control tokens and they were returned as they came.
C3_Witness ==
    /\ entry = "get_completion"
    /\ ValidStop /\ ~NoName /\ ~RagName
    /\ rag_interface
    /\ pc = "returned"
    /\ calls[1].ret = <<"[Relevant]fact[Fully supported]</s>">>
    /\ result = "[Relevant]fact[Fully supported]</s>"

\* C4: in get_completion and in get_chat_completion, a valid stop token, a
\* model name containing "RAG" and no retrieval backend end the call in the
\* missing-retrieval configuration error with no backend call made; nothing
\* is returned.
C4_RagWithoutBackend ==
    (NonBatchEntry /\ ValidStop /\ RagName /\ ~rag_interface)
        => /\ pc = "raised"
           /\ raised = (IF entry = "get_completion"
                        THEN CompletionNoRagError ELSE ChatNoRagError)
           /\ calls = <<>>

\* C4 happens: a chat request of two messages in RAG mode was rejected for
\* want of a retrieval backend.
C4_Witness ==
    /\ entry = "get_chat_completion"
    /\ ValidStop /\ RagName /\ ~rag_interface
    /\ Len(arg) = 2
    /\ pc = "raised"
    /\ raised = ChatNoRagError

\* C5: remove_cruft is idempotent: cleaning its output again changes nothing.
C5_Idempotent ==
    (entry = "remove_cruft" /\ pc = "returned")
        => remove_cruft(result) = result

\* C6: get_batch_completion, for every config, makes exactly one batch call
\* with the caller's prompt list and config, makes no other backend call,
\* raises nothing, and returns the backend's list unchanged.
C6_BatchPassThrough ==
    (entry = "get_batch_completion")
        => /\ pc \in {"batch", "returned"}
           /\ raised = ""
           /\ Len(calls) = 1
           /\ calls[1].op = "get_batch_instruct_completion"
           /\ calls[1].list = arg
           /\ calls[1].config = <<generation_config>>
           /\ (pc = "returned") => result_list = calls[1].ret

\* C6 happens: with no stop token and a RAG model name, a two-prompt batch
\* returned a list of another length whose elements carry whitespace,
\* control tokens and a paragraph span.
C6_Witness ==
    /\ entry = "get_batch_completion"
    /\ generation_config.stop_token = <<>>
    /\ RagName
    /\ Len(arg) = 2
    /\ pc = "returned"
    /\ result_list = <<"[Retrieval]<paragraph>x</paragraph>">>

\* C7: in RAG mode, get_chat_completion on a conversation of exactly one
\* user message calls the retrieval backend first, with the one-element
\* list holding that message's content verbatim, and makes one model call
\* in total, the final one.
C7_SingleUserMessage ==
    (/\ entry = "get_chat_completion"
     /\ ValidStop /\ RagName /\ rag_interface
     /\ Len(arg) = 1
     /\ arg[1].role = "user")
        => /\ pc \in {"chat_rag", "chat_final", "returned"}
           /\ IsRagCall(calls[1])
           /\ calls[1].list = <<arg[1].content>>
           /\ NumRag = 1
           /\ NumModel = (IF pc = "chat_rag" THEN 0 ELSE 1)
           /\ (pc = "returned")
                 => /\ Len(calls) = 2
                    /\ IsModelCall(calls[2])

\* C7 happens: the single user message was itself a control token, and it
\* reached the retrieval backend as it was.
C7_Witness ==
    /\ entry = "get_chat_completion"
    /\ ValidStop /\ RagName /\ rag_interface
    /\ arg = <<[role |-> "user", content |-> "[Retrieval]"]>>
    /\ pc = "returned"
    /\ calls[1].list = <<"[Retrieval]">>
    /\ NumModel = 1

\* C8: a get_chat_completion call that returned made one retrieval call in
\* RAG mode and none otherwise; two model calls in RAG mode with more than
\* one message and one otherwise; the retrieval call is the call just
\* before the final model call, and the final model call is the last call
\* whatever it returned.
C8_ChatOneRound ==
    (entry = "get_chat_completion" /\ pc = "returned")
        => /\ NumRag = (IF RagName THEN 1 ELSE 0)
           /\ NumModel = (IF RagName /\ Len(arg) > 1 THEN 2 ELSE 1)
           /\ Len(calls) = NumRag + NumModel
           /\ IsModelCall(calls[Len(calls)])
           /\ calls[Len(calls)].ret # <<>>
           /\ RagName => IsRagCall(calls[Len(calls) - 1])

\* C8 happens: a two-message RAG chat returned after query derivation,
\* one retrieval and a final output that ends with "[Retrieval]".
C8_Witness ==
    /\ entry = "get_chat_completion"
    /\ pc = "returned"
    /\ RagName
    /\ Len(arg) = 2
    /\ Len(calls) = 3
    /\ calls[3].ret = <<"[Retrieval]">>

\* C9: in get_completion and in get_chat_completion, a valid stop token
\* with a missing or empty model name ends the call in the model-name
\* configuration error with no backend call made.
C9_ModelNameRequired ==
    (NonBatchEntry /\ ValidStop /\ NoName)
        => /\ pc = "raised"
           /\ raised = NoModelNameError
           /\ calls = <<>>

\* C9 happens: get_completion with an empty model name was rejected.
C9_Witness ==
    /\ entry = "get_completion"
    /\ ValidStop
    /\ generation_config.model_name = <<"">>
    /\ pc = "raised"
    /\ raised = NoModelNameError

\* the whole of c after the first occurrence of the marker "### Response:\n"
AfterFirstMarker(c) ==
    SubSeq(c, Find(c, "### Response:\n", 1) + Len("### Response:\n"), Len(c))

\* C10: extract_post_prompt raises the format error when the completion
\* lacks the marker "### Response:\n", and otherwise returns everything
\* after the first occurrence of the marker, later occurrences included.
C10_PostPrompt ==
    (entry = "extract_post_prompt")
        => IF Contains(arg, "### Response:\n")
           THEN pc = "returned" /\ result = AfterFirstMarker(arg)
           ELSE pc = "raised" /\ raised = ExtractError

\* C11: for every input Q, format_prompt(Q) starts with the system prompt,
\* continues with "### Instruction:\n" immediately followed by Q, and ends
\* with "### Response:\n"; it raises for no input.
C11_FormatPrompt ==
    (entry = "format_prompt")
        => /\ pc = "returned"
           /\ MatchAt(result, SYSTEM_PROMPT, 1)
           /\ MatchAt(result, "### Instruction:\n" \o arg,
                      Len(SYSTEM_PROMPT) + 1)
           /\ EndsWith(result, "### Response:\n")

\* what holds of format_prompt: system prompt, instruction prefix, a newline,
\* the input, two newlines, the response prefix, and nothing else
C11_FormatPromptLayout ==
    (entry = "format_prompt")
        => /\ pc = "returned"
           /\ result = SYSTEM_PROMPT \o "### Instruction:\n" \o "\n" \o arg
                           \o "\n\n" \o "### Response:\n"

\* the plain-text segments of sl, concatenated in order
RECURSIVE PlainOf(_)
PlainOf(sl) ==
    IF sl = <<>> THEN ""
    ELSE (IF Head(sl).kind = "text" THEN Head(sl).text ELSE "")
             \o PlainOf(Tail(sl))

\* remove_cruft was called on the input built from `segments`
WellFormedCall ==
    /\ entry = "remove_cruft"
    /\ pc = "returned"
    /\ segments # <<>>
    /\ arg = Join(segments)

\* C12: on an input built by concatenating plain-text segments, whole
\* control tokens and well-formed paragraph spans (bodies without
\* "</paragraph>", possibly with newlines, tokens and "<paragraph>"),
\* remove_cruft returns exactly the plain-text segments concatenated in
\* their order.
C12_WellFormedCleaned == WellFormedCall => result = PlainOf(segments)

\* C12 happens: the example of the claim,
\* remove_cruft("[Retrieval]<paragraph>ctx</paragraph>rest[Irrelevant]"),
\* returned "rest".
C12_Witness ==
    /\ WellFormedCall
    /\ arg = "[Retrieval]<paragraph>ctx</paragraph>rest[Irrelevant]"
    /\ result = "rest"

\* C12 also happens with two spans around plain text, one of them with a
\* newline, a token and an opening marker in its body.
C12_TwoSpans ==
    /\ WellFormedCall
    /\ arg = "<paragraph>l1\n[Relevant]<paragraph>l2</paragraph>a b\n<paragraph>ctx</paragraph>"
    /\ result = "a b\n"

\* the retrieval call of the RAG loop that was just issued
PendingRetrieval == C2_RagMode /\ pc = "completion_rag"

\* C13: every retrieval call of get_completion's RAG loop passes a list of
\* exactly one query: the caller's prompt when the accumulated completion is
\* exactly "[Retrieval]", and remove_cruft(accumulated completion) in every
\* other case; from the second retrieval of a call on, the completion is
\* never exactly "[Retrieval]", so the query is the cleaned completion.
C13_RetrievalQuery ==
    PendingRetrieval
        => /\ Len(calls[Len(calls)].list) = 1
           /\ calls[Len(calls)].list[1] =
                 (IF completion = "[Retrieval]" THEN arg
                  ELSE remove_cruft(completion))
           /\ (NumRag >= 2)
                 => /\ completion # "[Retrieval]"
                    /\ calls[Len(calls)].list[1] = remove_cruft(completion)
           /\ \A i \in 1..Len(calls) :
                 IsRagCall(calls[i]) => Len(calls[i].list) = 1

\* C13 happens: the first retrieval of a call used the prompt, and its
\* second retrieval is issued with the cleaned completion, which is empty.
C13_Witness ==
    /\ PendingRetrieval
    /\ NumRag = 2
    /\ calls[2].list = <<arg>>
    /\ calls[4].list = <<"">>

\* C13 also happens on a first retrieval whose completion is more than the
\* token: the query is the cleaned text, not the prompt.
C13_FirstCleaned ==
    /\ PendingRetrieval
    /\ NumRag = 1
    /\ completion = "Intro.[Retrieval]"
    /\ calls[2].list = <<"Intro.">>

\* the RAG loop of get_completion is running
InLoop == C2_RagMode /\ pc \in {"completion_model", "completion_rag"}

\* when a model call of the loop returns, the completion grows by the
\* trimmed output, and the call returns iff the accumulated completion does
\* not end with "[Retrieval]"; when a retrieval call returns, the loop always
\* goes on with one more model call
C14_LoopStep ==
    /\ (C2_RagMode /\ pc = "completion_model")
          => /\ Len(completion) <= Len(completion')
             /\ SubSeq(completion', 1, Len(completion)) = completion
             /\ IsTrimOf(SubSeq(completion', Len(completion) + 1,
                                Len(completion')),
                         calls'[Len(calls)].ret[1])
             /\ (pc' = "returned") <=> ~EndsWith(completion', "[Retrieval]")
             /\ (pc' = "completion_rag")
                   <=> EndsWith(completion', "[Retrieval]")
    /\ (C2_RagMode /\ pc = "completion_rag")
          => /\ pc' = "completion_model"
             /\ Len(calls') = Len(calls) + 1
             /\ IsModelCall(calls'[Len(calls')])

\* the model output r, once its trailing whitespace is removed, ends with
\* "[Retrieval]"
AsksRetrieval(r) ==
    \E k \in 0..Len(r) :
        /\ AllWhitespace(SubSeq(r, k + 1, Len(r)))
        /\ EndsWith(SubSeq(r, 1, k), "[Retrieval]")

\* a completion ending with "[Retrieval]" means the call has not returned
\* and waits for a retrieval; and every model output so far asked for a
\* retrieval, except the last one of a call that has returned: the call
\* returns at the first output that does not, and not before
C14_FirstPlainOutput ==
    C2_RagMode
        => /\ EndsWith(completion, "[Retrieval]") => pc = "completion_rag"
           /\ \A i \in 1..Len(ModelReturns) :
                 AsksRetrieval(ModelReturns[i])
                    <=> ~(pc = "returned" /\ i = Len(ModelReturns))

    /\ pc = "returned"
    /\ NumModel = 4
    /\ NumRag = 3
    /\ \A i \in 1..3 : AsksRetrieval(ModelReturns[i])
    /\ ~AsksRetrieval(ModelReturns[4])
    /\ ~EndsWith(completion, "[Retrieval]")

----------------------------------------------------------------------------
(* C15 *)

\* the model's own trimmed outputs, concatenated in order
RECURSIVE OwnText(_)
OwnText(rs) ==
    IF rs = <<>> THEN "" ELSE Strip(Head(rs)) \o OwnText(Tail(rs))

\* the contexts returned so far by the retrieval backend, in order
ContextReturns ==
    LET done == SelectSeq(calls, LAMBDA c : IsRagCall(c) /\ c.ret # <<>>)
    IN  [i \in 1..Len(done) |-> done[i].ret[1]]

\* C15: the string returned by get_completion in RAG mode carries no
\* retrieved context and no control token, whatever the contexts hold: it is
\* the trimmed concatenation of the model's own trimmed outputs with their
\* control tokens removed.
C15_NoContextInResult ==
    (C2_RagMode /\ pc = "returned")
        => result = Strip(ReplaceChain(OwnText(ModelReturns), 1))

\* the same holds on the code when no retrieved context contains
\* "</paragraph>"
C15_PlainContexts ==
    (C2_RagMode /\ pc = "returned"
        /\ \A i \in 1..Len(ContextReturns) :
              ~Contains(ContextReturns[i], "</paragraph>"))
        => result = Strip(ReplaceChain(OwnText(ModelReturns), 1))

----------------------------------------------------------------------------
(* C16 *)

\* a is a prefix of b
IsPrefix(a, b) == Len(a) <= Len(b) /\ SubSeq(b, 1, Len(a)) = a

\* the prompts of the model calls of the RAG loop: every one is
\* format_prompt(original prompt) followed by a prefix of the completion, the
\* first by nothing; the pending one is followed by the whole completion,
\* which after a retrieval ends with the span of the context just fetched
C16_Prompts ==
    C2_RagMode
        => /\ \A i \in 1..Len(calls) :
                 IsModelCall(calls[i])
                    => /\ IsPrefix(format_prompt(arg), calls[i].prompt)
                       /\ IsPrefix(SubSeq(calls[i].prompt,
                                          Len(format_prompt(arg)) + 1,
                                          Len(calls[i].prompt)),
                                   completion)
           /\ calls[1].prompt = format_prompt(arg)
           /\ (pc = "completion_model")
                 => /\ calls[Len(calls)].prompt
                          = format_prompt(arg) \o completion
                    /\ (Len(calls) = 1) => completion = ""
                    /\ (Len(calls) > 1)
                          => EndsWith(completion,
                                      "[Retrieval]<paragraph>"
                                          \o calls[Len(calls) - 1].ret[1]
                                          \o "</paragraph>")

\* a step of get_completion only appends to the completion
C16_Grows ==
    (entry = "get_completion") => IsPrefix(completion, completion')

\* C16: throughout the RAG loop of get_completion the prompt of each model
\* call is format_prompt(original prompt) followed by the accumulated
\* completion; the completion only grows by appending; it is empty at the
\* first model call and at every later one ends with "[Retrieval]" +
\* "<paragraph>" + context + "</paragraph>" for the context just fetched.
C16_PromptGrowsByAppending == []C16_Prompts /\ [][C16_Grows]_vars

\* C16 happens: the third model call of a loop is pending, after two
\* retrievals, the second of which returned "ctx"
C16_Witness ==
    /\ C2_RagMode
    /\ pc = "completion_model"
    /\ NumModel = 3
    /\ calls[4].ret = <<"ctx">>
    /\ EndsWith(completion, "[Retrieval]<paragraph>ctx</paragraph>")
    /\ EndsWith(calls[5].prompt, "[Retrieval]<paragraph>ctx</paragraph>")

----------------------------------------------------------------------------
(* C17 *)

\* get_chat_completion passed its stop-token check
ChatPastCheck ==
    /\ entry = "get_chat_completion"
    /\ raised # StopTokenError

\* while and after get_chat_completion runs, the caller's config keeps the
\* stop token "<paragraph>" that passed the check; the query-derivation call
\* got a config with the stop token cleared and the caller's model name; the
\* final model call got the caller's config
C17_Configs ==
    ChatPastCheck
        => /\ generation_config.stop_token = <<"<paragraph>">>
           /\ (RagName /\ Len(arg) > 1 /\ Len(calls) >= 1)
                 => /\ IsModelCall(calls[1])
                    /\ calls[1].config[1].stop_token = <<>>
                    /\ calls[1].config[1].model_name
                          = generation_config.model_name
           /\ (pc \in {"chat_final", "returned"})
                 => /\ IsModelCall(calls[Len(calls)])
                    /\ calls[Len(calls)].config = <<generation_config>>
                    /\ calls[Len(calls)].config[1].stop_token
                          = <<"<paragraph>">>

\* the caller's config after the first step of get_chat_completion is the
\* config that was passed, and no later step of the call changes it
C17_Frame ==
    /\ \A conv \in Conversations, cfg \in Configs :
          GetChatCompletion(conv, cfg) => generation_config' = cfg
    /\ (entry = "get_chat_completion")
          => generation_config' = generation_config

\* C17: get_chat_completion never modifies the caller's generation config:
\* in RAG mode the stop token is cleared only on a separate copy passed to
\* the query-derivation call, the final model call receives the caller's
\* config with stop_token still "<paragraph>", and after the call returns or
\* raises the caller's config has the stop token and model name it had.
C17_CallerConfigKept == []C17_Configs /\ [][C17_Frame]_vars

\* C17 happens: a RAG chat call over a two-message conversation returned;
\* its query-derivation call had no stop token, its final call had
\* "<paragraph>"
C17_Witness ==
    /\ entry = "get_chat_completion"
    /\ pc = "returned"
    /\ RagName
    /\ Len(arg) = 2
    /\ Len(calls) = 3
    /\ calls[1].config[1].stop_token = <<>>
    /\ calls[3].config[1].stop_token = <<"<paragraph>">>
    /\ generation_config.stop_token = <<"<paragraph>">>

----------------------------------------------------------------------------
(* C18 *)

\* C18: whenever get_chat_completion uses the remembered last user message
\* as the retrieval query (RAG mode, retrieval backend configured, valid
\* stop token, conversation of at most one message of any role, an empty
\* conversation included), the query is defined: the call reaches the
\* retrieval backend with a one-element query list and fails with nothing
\* other than the configuration errors.
C18_FallbackQueryDefined ==
    (/\ entry = "get_chat_completion"
     /\ ValidStop /\ RagName /\ rag_interface
     /\ Len(arg) <= 1)
        => /\ raised \in ConfigurationErrors \cup {""}
           /\ pc \in {"chat_rag", "chat_final", "returned"}
           /\ Len(calls) >= 1
           /\ IsRagCall(calls[1])
           /\ Len(calls[1].list) = 1

\* on the code the fallback query is defined exactly when the single message
\* is a user message; otherwise the local last_user_message was never bound
\* and the call raises before any backend call
C18_UnboundWithoutUserMessage ==
    (/\ entry = "get_chat_completion"
     /\ ValidStop /\ RagName /\ rag_interface
     /\ Len(arg) <= 1)
        => IF Len(arg) = 1 /\ arg[1].role = "user"
           THEN /\ raised = ""
                /\ calls[1].list = <<arg[1].content>>
           ELSE /\ pc = "raised"
                /\ raised = UnboundLocalError
                /\ calls = <<>>

====
